---- MODULE Spec2Model ----
(***************************************************************************)
(* Focus Blocker: a local DNS relay that blocks a list of domains outside  *)
(* a daily allowed window and forwards everything else upstream.           *)
(*                                                                         *)
(* Nine specifications share this module:                                  *)
(*   SpecMatch   the blocklist matcher  (dns_server.py, is_domain_blocked) *)
(*   SpecSched   the schedule evaluator (scheduler.py, is_blocking_active) *)
(*   Spec        the relay: start(), the accept loop, handle_request,      *)
(*               resolve_upstream, create_blocked_response, stop()         *)
(*   SpecMonitor the network monitor's life cycle: its loop threads, its   *)
(*               start() and stop(), and the relay's start() and stop()    *)
(*               that build and stop it                                    *)
(*   SpecTick    the network monitor's loop against an operating system    *)
(*               whose network changes                                     *)
(*   SpecFair    Spec with the scheduling of its threads                   *)
(*   SpecStop    SpecMonitor with the scheduling of its threads            *)
(*   SpecStart   start() statement by statement against stop()             *)
(*   SpecCapture _get_upstream_dns_servers line by line against captures   *)
(*               of the original servers made by another thread            *)
(*                                                                         *)
(* Strings that the code inspects character by character (domain names)    *)
(* are sequences of one-character strings.                                 *)
(***************************************************************************)
EXTENDS Naturals, Sequences, FiniteSets

VARIABLES
    \* ---- matcher harness (SpecMatch)
    domain,             \* the argument of is_domain_blocked
    blocked_ret,        \* what is_domain_blocked returned
    match_done,         \* the call has returned
    \* ---- schedule (SpecSched, and read by the relay)
    allowed_start_hour, \* config.ALLOWED_START_HOUR
    allowed_end_hour,   \* config.ALLOWED_END_HOUR
    current_hour,       \* scheduler.py: current_hour = datetime.now().hour
    active_ret,         \* what is_blocking_active returned
    sched_done,         \* the call has returned
    \* ---- the relay (Spec): FocusBlockerDNS and what it talks to
    is_macos,           \* IS_MACOS
    original_upstream_dns, \* NetworkMonitor.original_upstream_dns (class variable)
    network_monitor,    \* self._network_monitor: "None" or "started"
    running,            \* self.running
    socket,             \* self.socket: "None", "unbound" or "bound"
    pc,                 \* where the thread that called start() is
    bind_error,         \* what bind() raised and what start() raised for it
    data,               \* the datagram recvfrom returned
    delegated,          \* handle_request called resolve_upstream
    upstream_servers,   \* resolve_upstream's local list of candidates
    tried,              \* the candidates attempted so far, in order
    last_outcome,       \* how the last attempt ended
    upstream_query,     \* the bytes last sent to an upstream
    upstream_reply,     \* response_data of the successful attempt
    built,              \* which statement of handle_request built the result
    response,           \* the bytes handle_request returned
    hr_raised,          \* an exception left handle_request
    reply_sent,         \* the bytes sendto gave the client for this datagram
    open_socks,         \* sockets resolve_upstream has opened and not closed
    tested_dns,         \* what line 65 of _get_upstream_dns_servers read
    published,          \* the lists assigned to original_upstream_dns during a call
    \* ---- NetworkMonitor (SpecMonitor; built, started and stopped by the relay)
    _running,           \* self._running
    _thread,            \* self._thread: 0 for None, else an index into threads
    _last_interface,    \* self._last_interface
    _last_service_id,   \* self._last_service_id
    threads,            \* the loop threads spawned so far, one record each
    captured_dhcp,      \* what get_dhcp_dns_servers() returned in __init__
    captures,           \* calls of _capture_original_dns by the relay's monitor
    seen_service,       \* the service id the previous tick read
    last_pass,          \* what the latest pass of a loop thread did
    \* ---- the operating system
    active_interface,   \* what get_active_interface() returns now
    primary_service,    \* what get_primary_service_id() returns now
    system_dns,         \* what get_current_dns_from_scutil() returns now
    dhcp_lease,         \* the DNS servers of the DHCP lease (ipconfig getpacket)
    \* ---- the thread that calls start() and stop() on the two objects
    client_pc,          \* where that thread is inside stop()
    stop_calls,         \* calls of FocusBlockerDNS.stop() since start() was called
    monitor_stop_calls, \* calls of NetworkMonitor.stop() since the last spawn
    start_calls,        \* calls of NetworkMonitor.start() so far
    socket_closes,      \* calls of self.socket.close() so far
    monitor_stops       \* calls of self._network_monitor.stop() by the relay

matchVars == <<domain, blocked_ret, match_done>>
schedVars == <<allowed_start_hour, allowed_end_hour, current_hour, active_ret, sched_done>>
serverVars == <<is_macos, original_upstream_dns, network_monitor, running, socket,
                pc, bind_error>>
requestVars == <<data, delegated, upstream_servers, tried, last_outcome,
                 upstream_query, upstream_reply, built, response, hr_raised,
                 reply_sent, open_socks>>
monitorVars == <<_running, _thread, _last_interface, _last_service_id, threads,
                 captured_dhcp, captures, seen_service, last_pass>>
envVars == <<active_interface, primary_service, system_dns, dhcp_lease>>
clientVars == <<client_pc, stop_calls, monitor_stop_calls, start_calls,
                socket_closes, monitor_stops>>
\* everything the accept loop only reads: the server object's fields without
\* pc, the monitor, the operating system and the calling thread
objectVars == <<is_macos, original_upstream_dns, network_monitor, running, socket,
                bind_error, monitorVars, envVars, clientVars>>
\* the call of _get_upstream_dns_servers that SpecCapture follows line by line
captureVars == <<tested_dns, published>>
relayVars == <<serverVars, requestVars, monitorVars, envVars, clientVars,
               captureVars>>
\* what no step of the relay or of the monitor writes
idleVars == <<matchVars, captureVars>>
vars == <<matchVars, schedVars, relayVars>>

(***************************************************************************)
(* Bounds                                                                  *)
(***************************************************************************)
\* Longest domain name handed to is_domain_blocked.
MaxLen == 5

(***************************************************************************)
(* Characters and strings                                                  *)
(***************************************************************************)
Dot == "."
LowerLetters == {"a", "b"}
UpperLetters == {"A", "B"}
Chars == LowerLetters \cup UpperLetters \cup {Dot}

\* str.lower() on one character
lower_char(c) ==
    CASE c = "A" -> "a"
      [] c = "B" -> "b"
      [] OTHER -> c

\* str.upper() on one character (used to build inputs, not by the code)
upper_char(c) ==
    CASE c = "a" -> "A"
      [] c = "b" -> "B"
      [] OTHER -> c

\* str.lower()
lower(s) == [i \in 1..Len(s) |-> lower_char(s[i])]

\* str.rstrip("."): removes EVERY trailing dot
RECURSIVE rstrip(_)
rstrip(s) ==
    IF s = <<>> THEN s
    ELSE IF s[Len(s)] = Dot THEN rstrip(SubSeq(s, 1, Len(s) - 1))
    ELSE s

\* str.endswith(suffix)
endswith(s, suffix) ==
    /\ Len(suffix) <= Len(s)
    /\ SubSeq(s, Len(s) - Len(suffix) + 1, Len(s)) = suffix

(***************************************************************************)
(* config.py                                                               *)
(***************************************************************************)
\* The block list, over the two-letter alphabet.  It keeps the two shapes of
\* the list in config.py: a plain rule ("instagram.com" ~ a.b) and a rule
\* that extends another one on the left with no dot between
\* ("cdninstagram.com" ~ ba.b).
BLOCKED_DOMAINS == << <<"a", ".", "b">>, <<"b", "a", ".", "b">> >>

ALLOWED_START_HOUR == 20
ALLOWED_END_HOUR == 22

Hours == 0..23

(***************************************************************************)
(* dns_server.py: FocusBlockerDNS.is_domain_blocked                        *)
(***************************************************************************)
\* line 46: domain = domain.rstrip(".").lower()
normalize_no_lower(d) == rstrip(d)
normalize(d) == lower(rstrip(d))

\* lines 50-54: the two tests made against one rule
rule_matches_undotted(d, blocked) == d = blocked \/ endswith(d, blocked)
rule_matches(d, blocked) == d = blocked \/ endswith(d, <<Dot>> \o blocked)

is_domain_blocked(d) ==
    LET n == normalize(d)
    IN  \E i \in 1..Len(BLOCKED_DOMAINS) : rule_matches(n, BLOCKED_DOMAINS[i])

(***************************************************************************)
(* scheduler.py: is_blocking_active                                        *)
(***************************************************************************)
\* lines 21-26 with the same-day upper bound taken inclusive
in_allowed_window_inclusive(start, end, hour) ==
    IF start < end
    THEN start <= hour /\ hour <= end
    ELSE hour >= start \/ hour < end

\* lines 21-26 with the overnight branch taken only when start > end
in_allowed_window_strict_wrap(start, end, hour) ==
    IF start < end
    THEN start <= hour /\ hour < end
    ELSE start > end /\ (hour >= start \/ hour < end)

in_allowed_window(start, end, hour) ==
    IF start < end
    THEN start <= hour /\ hour < end
    ELSE hour >= start \/ hour < end

is_blocking_active(start, end, hour) == ~in_allowed_window(start, end, hour)

(***************************************************************************)
(* DNS messages (dnslib).  A datagram is either bytes that DNSRecord.parse *)
(* rejects, or the encoding of a message.  One message has several wire    *)
(* encodings (name compression, label case of pointers); parse keeps the   *)
(* message and forgets the encoding, pack always writes the library's own. *)
(***************************************************************************)
Encs == {"canonical", "other"}
NoBytes == [kind |-> "none"]
Garbage == [kind |-> "garbage"]
Bytes(m, e) == [kind |-> "msg", enc |-> e, msg |-> m]

\* DNSRecord.parse(data) succeeds
Parseable(b) == b.kind = "msg"
\* DNSRecord.parse(data)
parse(b) == b.msg
\* DNSRecord.pack()
pack(m) == Bytes(m, "canonical")

RR(rtype, rdata, ttl) == [rtype |-> rtype, rdata |-> rdata, ttl |-> ttl]

\* a query as a client sends it: QR = 0, RCODE = 0, no answers
Query(id, qname, qtype) ==
    [id |-> id, qr |-> 0, rcode |-> 0, qname |-> qname, qtype |-> qtype,
     answers |-> <<>>]

\* DNSRecord.reply(): same transaction ID and question, QR = 1, no answers
reply(request) ==
    [id |-> request.id, qr |-> 1, rcode |-> 0, qname |-> request.qname,
     qtype |-> request.qtype, answers |-> <<>>]

IDs == {1, 2}
QTypes == {"A", "AAAA", "ANY", "HTTPS", "CNAME"}
\* str(request.q.qname) always ends with the root dot
QNames == { <<"a", ".", "b", ".">>,        \* a rule
            <<"B", ".", "a", ".", "b", ".">>,  \* a subdomain of a rule
            <<"a", "a", ".", "b", ".">> }  \* not blocked
Datagrams ==
    {Garbage} \cup
    {Bytes(Query(i, n, t), e) : i \in IDs, n \in QNames, t \in QTypes, e \in Encs}

(***************************************************************************)
(* config.py, network addresses                                            *)
(***************************************************************************)
UPSTREAM_DNS == "8.8.8.8"
BLOCK_IP == "0.0.0.0"
BLOCK_IPV6 == "::"
RouterDNS == "192.168.1.1"
OtherDNS == "10.0.0.1"
Loopback == "127.0.0.1"

\* what get_dhcp_dns_servers() may return: every IPv4 address the lease names
\* as a DNS server, whatever it is (lines 133-139 do not look at the address)
DhcpChoices == { <<>>, <<RouterDNS>>, <<UPSTREAM_DNS, RouterDNS>>,
                 <<RouterDNS, OtherDNS>>, <<Loopback>> }
\* what get_current_dns_from_scutil() may return while the network changes:
\* the relay alone, or the network's resolver alone
ScutilChoices == { <<Loopback>>, <<OtherDNS>> }

Range(seq) == {seq[i] : i \in 1..Len(seq)}

RECURSIVE Filter(_, _)
Filter(seq, keep) ==
    IF seq = <<>> THEN <<>>
    ELSE (IF Head(seq) \in keep THEN <<Head(seq)>> ELSE <<>>) \o Filter(Tail(seq), keep)

\* dns.startswith("127.")
StartsWith127(a) == a = Loopback

(***************************************************************************)
(* network_monitor.py: NetworkMonitor._capture_original_dns                *)
(***************************************************************************)
\* the new value of NetworkMonitor.original_upstream_dns
_capture_original_dns(old, dhcp_dns, current_dns, dns_server) ==
    LET original ==
            Filter(current_dns,
                   {a \in Range(current_dns) : a # dns_server /\ ~StartsWith127(a)})
    IN  IF dhcp_dns # <<>> THEN dhcp_dns
        ELSE IF original # <<>> THEN original
        ELSE old

(***************************************************************************)
(* network_monitor.py: the helpers and the bodies of NetworkMonitor        *)
(***************************************************************************)
None == "None"
\* what get_active_interface() may return
Interfaces == {None, "en0", "en1"}
\* what get_primary_service_id() may return
Services == {None, "S1"}

\* how many times the calling thread calls stop() on one object, and start()
MaxStops == 2
MaxStarts == 2

\* get_dhcp_dns_servers, lines 121-141: no lease is read without an interface
get_dhcp_dns_servers(interface, lease) ==
    IF interface = None THEN <<>> ELSE lease

\* is_dns_configured, lines 144-147
is_dns_configured(dns_server, current_dns) == dns_server \in Range(current_dns)

\* _configure_dns, lines 200-223, for what the two scutil calls returned
_configure_dns(global_success, service_id, service_success, last_service_id) ==
    LET service_ok == service_id # None /\ service_success
        success == global_success \/ service_ok
    IN  [success |-> success,
         last_service_id |-> IF service_ok THEN service_id ELSE last_service_id,
         flushed |-> success]

\* a check that would re-apply the relay on every tick
needs_configure_every_tick(interface, service_id, last_interface, last_service_id, dns_correct) ==
    TRUE

\* a check that looks at the interface and the service only
needs_configure_ignores_dns(interface, service_id, last_interface, last_service_id, dns_correct) ==
    \/ (interface # None /\ interface # last_interface)
    \/ (service_id # None /\ service_id # last_service_id)

\* _check_and_configure_dns, lines 227-240: the condition of line 239
needs_configure(interface, service_id, last_interface, last_service_id, dns_correct) ==
    LET interface_changed == interface # None /\ interface # last_interface
        service_changed == service_id # None /\ service_id # last_service_id
    IN  ~dns_correct \/ interface_changed \/ service_changed

\* what the latest pass of a loop thread did: whether it called
\* _configure_dns, whether that succeeded and flushed the cache, whether a
\* subprocess call raised
NoPass == [applied |-> FALSE, success |-> FALSE, flushed |-> FALSE,
           raised |-> FALSE]
RaisedPass == [applied |-> FALSE, success |-> FALSE, flushed |-> FALSE,
               raised |-> TRUE]
AppliedPass(r) == [applied |-> TRUE, success |-> r.success,
                   flushed |-> r.flushed, raised |-> FALSE]

\* a loop that would sleep before its first pass
thread_entry_sleeps_first == "test"

\* _monitor_loop, line 253: the thread begins with self._configure_dns()
thread_entry == "initial"

\* a loop whose except clause would let the error end the thread
tick_except_propagates == "crashed"

\* _monitor_loop, lines 258-262: except Exception: pass, then the while test
tick_except == "test"

\* threading.Thread(target=self._monitor_loop, daemon=True), line 270
NewThread == [pc |-> thread_entry, initial_pass |-> "none", joins |-> 0]

\* the thread's target has returned or died
thread_finished(th) == th.pc \in {"exited", "crashed"}

\* a join with no timeout
join_waits_for_thread(th) == thread_finished(th)

\* join(timeout=check_interval + 1), line 277: the wait ends when the thread
\* has finished, or after 16 s; a thread that is asleep or at the while test
\* when _running is false finishes within the 15 s of its sleep, so the wait
\* runs out only on a thread inside a pass (its subprocess calls have no
\* timeout)
join_returns(th) == thread_finished(th) \/ th.pc \in {"initial", "check"}

\* a start() that would spawn a thread whatever the flag says
monitor_start_always_spawns ==
    /\ _running' = TRUE
    /\ threads' = Append(threads, NewThread)
    /\ _thread' = Len(threads) + 1

\* NetworkMonitor.start, lines 264-271
monitor_start ==
    IF _running
    THEN UNCHANGED <<_running, _thread, threads>>
    ELSE /\ _running' = TRUE
         /\ threads' = Append(threads, NewThread)
         /\ _thread' = Len(threads) + 1

\* NetworkMonitor.stop, lines 276-278
monitor_join ==
    IF _thread = 0
    THEN UNCHANGED <<_thread, threads>>
    ELSE /\ join_returns(threads[_thread])
         /\ threads' = [threads EXCEPT ![_thread].joins = @ + 1]
         /\ _thread' = 0

(***************************************************************************)
(* dns_server.py: FocusBlockerDNS                                          *)
(***************************************************************************)
\* a list that would put the fallback ahead of the captured servers
_get_upstream_dns_servers_fallback_first(macos, original) ==
    LET servers == IF macos /\ original # <<>> THEN original ELSE <<>>
    IN  IF UPSTREAM_DNS \notin Range(servers)
        THEN <<UPSTREAM_DNS>> \o servers
        ELSE servers

\* lines 58-70
_get_upstream_dns_servers(macos, original) ==
    LET servers == IF macos /\ original # <<>> THEN original ELSE <<>>
    IN  IF UPSTREAM_DNS \notin Range(servers)
        THEN Append(servers, UPSTREAM_DNS)
        ELSE servers

\* lines 98-113 with the ANY branch adding only the A record
create_blocked_response_any_a_only(request) ==
    LET r == reply(request)
    IN  CASE request.qtype \in {"A", "ANY"} ->
                [r EXCEPT !.answers = <<RR("A", BLOCK_IP, 60)>>]
          [] request.qtype = "AAAA" ->
                [r EXCEPT !.answers = <<RR("AAAA", BLOCK_IPV6, 60)>>]
          [] OTHER -> [r EXCEPT !.rcode = 3]

\* lines 90-113
create_blocked_response(request) ==
    LET r == reply(request)
    IN  CASE request.qtype = "A" ->
                [r EXCEPT !.answers = <<RR("A", BLOCK_IP, 60)>>]
          [] request.qtype = "AAAA" ->
                [r EXCEPT !.answers = <<RR("AAAA", BLOCK_IPV6, 60)>>]
          [] request.qtype = "ANY" ->
                [r EXCEPT !.answers = <<RR("A", BLOCK_IP, 60),
                                        RR("AAAA", BLOCK_IPV6, 60)>>]
          [] OTHER -> [r EXCEPT !.rcode = 3]

\* line 122 with "or" for "and"
should_block_or(active, qname) == active \/ is_domain_blocked(qname)
\* line 122: is_blocking_active() and self.is_domain_blocked(qname)
should_block(active, qname) == active /\ is_domain_blocked(qname)

\* lines 128-131 without the rcode assignment
upstream_unavailable_noerror(request) == reply(request)
\* lines 128-131: response = request.reply(); response.header.rcode = 2
upstream_unavailable(request) == [reply(request) EXCEPT !.rcode = 2]

\* lines 82 and 133 with the answer section lost on the way
relay_upstream_no_answers(response_data) ==
    pack([parse(response_data) EXCEPT !.answers = <<>>])
\* lines 82 and 133: DNSRecord.parse(response_data), later response.pack()
relay_upstream(response_data) == pack(parse(response_data))

\* lines 118 and 80: request = DNSRecord.parse(data) ... request.pack()
forward_query(d) == pack(parse(d))

\* lines 135-143 with the handler dropping the datagram instead of answering
handle_request_except_drop(d) ==
    [raised |-> FALSE, built |-> "empty", ret |-> NoBytes]
\* lines 135-143: the except clause of handle_request
handle_request_except(d) ==
    IF Parseable(d)
    THEN [raised |-> FALSE, built |-> "servfail_error",
          ret |-> pack([reply(parse(d)) EXCEPT !.rcode = 2])]
    ELSE [raised |-> FALSE, built |-> "empty", ret |-> NoBytes]

\* lines 185-186 with the exception let through
accept_loop_except_reraise == "crashed"
\* lines 185-186: except Exception: pass -- back to the while test
accept_loop_except == "loop"

\* what an upstream server may answer to a query
UpstreamReplies(request) ==
    {Bytes([id |-> i, qr |-> 1, rcode |-> c.rcode, qname |-> request.qname,
            qtype |-> request.qtype, answers |-> c.answers], e) :
        i \in IDs,
        c \in { [rcode |-> 0, answers |-> <<RR(request.qtype, "93.184.216.34", 300)>>],
                [rcode |-> 3, answers |-> <<>>] },
        e \in Encs}

RequestIdle ==
    /\ data = NoBytes
    /\ delegated = FALSE
    /\ upstream_servers = <<>>
    /\ tried = <<>>
    /\ last_outcome = "none"
    /\ upstream_query = NoBytes
    /\ upstream_reply = NoBytes
    /\ built = "pending"
    /\ response = NoBytes
    /\ hr_raised = FALSE
    /\ reply_sent = NoBytes
    /\ open_socks = 0

\* no NetworkMonitor yet; _running, _thread, _last_interface and
\* _last_service_id hold what NetworkMonitor.__init__ (lines 174-177) assigns
MonitorUnbuilt ==
    /\ _running = FALSE
    /\ _thread = 0
    /\ _last_interface = None
    /\ _last_service_id = None
    /\ threads = <<>>
    /\ captured_dhcp = <<>>
    /\ captures = 0
    /\ seen_service = "unset"
    /\ last_pass = NoPass

ClientIdle ==
    /\ client_pc = "idle"
    /\ stop_calls = 0
    /\ monitor_stop_calls = 0
    /\ start_calls = 0
    /\ socket_closes = 0
    /\ monitor_stops = 0

\* line 65 has not been reached / has read the list l
NotTested == [read |-> FALSE, list |-> <<>>]
Tested(l) == [read |-> TRUE, list |-> l]

\* no call of _get_upstream_dns_servers is being followed
CaptureIdle ==
    /\ tested_dns = NotTested
    /\ published = {}

\* an operating system the harnesses of the pure functions never look at
EnvQuiet ==
    /\ active_interface = None
    /\ primary_service = None
    /\ system_dns = <<>>
    /\ dhcp_lease = <<>>

\* FocusBlockerDNS.__init__ (lines 31-36) and the class variable (line 154)
RelayConstructed ==
    /\ original_upstream_dns = <<>>
    /\ network_monitor = "None"
    /\ running = FALSE
    /\ socket = "None"
    /\ pc = "init"
    /\ bind_error = [cause |-> "none", raised |-> "none"]
    /\ RequestIdle
    /\ MonitorUnbuilt
    /\ ClientIdle
    /\ CaptureIdle

RelayIdle ==
    /\ is_macos = FALSE
    /\ RelayConstructed
    /\ EnvQuiet

(***************************************************************************)
(* SpecMatch: is_domain_blocked applied to every name up to MaxLen         *)
(***************************************************************************)
Names == UNION {[1..n -> Chars] : n \in 0..MaxLen}

SchedIdle ==
    /\ allowed_start_hour = ALLOWED_START_HOUR
    /\ allowed_end_hour = ALLOWED_END_HOUR
    /\ current_hour = 0
    /\ active_ret = FALSE
    /\ sched_done = FALSE

MatchIdle ==
    /\ domain = <<>>
    /\ blocked_ret = FALSE
    /\ match_done = FALSE

MatchInit ==
    /\ domain \in Names
    /\ blocked_ret = FALSE
    /\ match_done = FALSE
    /\ SchedIdle
    /\ RelayIdle

MatchCall ==
    /\ ~match_done
    /\ blocked_ret' = is_domain_blocked(domain)
    /\ match_done' = TRUE
    /\ UNCHANGED <<domain, schedVars, relayVars>>

MatchNext == MatchCall

SpecMatch == MatchInit /\ [][MatchNext]_vars

(***************************************************************************)
(* Properties of the matcher (SpecMatch)                                   *)
(***************************************************************************)
\* d = prefix . rule, the prefix having at least minPrefix characters
DotSuffix(d, r, minPrefix) ==
    \E k \in minPrefix..Len(d) :
        /\ Len(d) = k + 1 + Len(r)
        /\ d[k + 1] = Dot
        /\ SubSeq(d, k + 2, Len(d)) = r

\* d ends with the characters of r, is longer, and has no dot before them
UndottedSuffix(d, r) ==
    /\ Len(d) > Len(r)
    /\ SubSeq(d, Len(d) - Len(r) + 1, Len(d)) = r
    /\ d[Len(d) - Len(r)] # Dot

\* lower case, no trailing dot
IsCanonical(d) ==
    /\ \A i \in 1..Len(d) : d[i] \notin UpperLetters
    /\ (d = <<>> \/ d[Len(d)] # Dot)

Rules == {BLOCKED_DOMAINS[i] : i \in 1..Len(BLOCKED_DOMAINS)}

\* C5: every rule blocks itself and every name "prefix.rule" with a non-empty
\* prefix; a name that ends with a rule's characters without a dot before them
\* is not matched by that rule; and a name in canonical form (lower case, no
\* trailing dot) is blocked only if it is a rule or ends with "." + a rule.
C5_RuleSelfSubdomainNoUndotted ==
    match_done =>
        /\ \A r \in Rules :
            /\ (domain = r => blocked_ret)
            /\ (DotSuffix(domain, r, 1) => blocked_ret)
            /\ (UndottedSuffix(domain, r) => ~rule_matches(normalize(domain), r))
        /\ (IsCanonical(domain) /\ blocked_ret
                => \E r \in Rules : domain = r \/ DotSuffix(domain, r, 0))
        /\ ((\E r \in Rules : UndottedSuffix(domain, r))
            /\ (\A r \in Rules : domain # r /\ ~DotSuffix(domain, r, 0))
            /\ IsCanonical(domain)
                => ~blocked_ret)

\* "evil" + rule: aa.b ends with the rule a.b with no dot before it
C5_Witness ==
    /\ match_done
    /\ domain = <<"a", "a", ".", "b">>
    /\ ~blocked_ret

\* the name with the letters at the positions in S changed to the other case
swap_case(d, S) ==
    [i \in 1..Len(d) |->
        IF i \in S
        THEN (IF d[i] \in UpperLetters THEN lower_char(d[i]) ELSE upper_char(d[i]))
        ELSE d[i]]

\* C6: changing the case of any letters of the name, or appending one trailing
\* dot to it, does not change what is_domain_blocked returns.
C6_CaseAndTrailingDotInsensitive ==
    match_done =>
        /\ \A S \in SUBSET (1..Len(domain)) :
               is_domain_blocked(swap_case(domain, S)) = blocked_ret
        /\ is_domain_blocked(domain \o <<Dot>>) = blocked_ret

\* is_blocked("A.B.") (~ "YouTube.com.") is true, as is_blocked("a.b") is
C6_Witness ==
    /\ match_done
    /\ domain = <<"A", ".", "B", ".">>
    /\ blocked_ret
    /\ is_domain_blocked(<<"a", ".", "b">>)

\* the normalization the specification describes: at most one trailing dot off
strip_one(d) ==
    IF d # <<>> /\ d[Len(d)] = Dot THEN SubSeq(d, 1, Len(d) - 1) ELSE d

\* the reference matcher: equality, or suffix match on "." + rule
ReferenceMatch(n) ==
    \E r \in Rules : n = r \/ DotSuffix(n, r, 0)

\* C7: is_domain_blocked(d) equals the reference matcher applied to the lower
\* cased name with at most one trailing dot removed.
C7_StripsOneTrailingDot ==
    match_done => blocked_ret = ReferenceMatch(lower(strip_one(domain)))


(***************************************************************************)
(* SpecSched: is_blocking_active for every window and every hour           *)
(***************************************************************************)
SchedInit ==
    /\ allowed_start_hour \in Hours
    /\ allowed_end_hour \in Hours
    /\ current_hour \in Hours
    /\ active_ret = FALSE
    /\ sched_done = FALSE
    /\ MatchIdle
    /\ RelayIdle

\* scheduler.py lines 19-28
SchedCall ==
    /\ ~sched_done
    /\ active_ret' = is_blocking_active(allowed_start_hour, allowed_end_hour, current_hour)
    /\ sched_done' = TRUE
    /\ UNCHANGED <<allowed_start_hour, allowed_end_hour, current_hour, matchVars,
                   relayVars>>

\* the wall clock moves on; a later call reads the new hour
ClockTick ==
    /\ current_hour' = (current_hour + 1) % 24
    /\ sched_done' = FALSE
    /\ UNCHANGED <<allowed_start_hour, allowed_end_hour, active_ret, matchVars,
                   relayVars>>

SchedNext == SchedCall \/ ClockTick

SpecSched == SchedInit /\ [][SchedNext]_vars

(***************************************************************************)
(* Properties of the schedule evaluator (SpecSched)                        *)
(***************************************************************************)
\* the allowed window as the specification's data model states it
AllowedBySpec(start, end, hour) ==
    \/ start < end /\ start <= hour /\ hour < end
    \/ start >= end /\ (hour >= start \/ hour < end)

\* C8: for every window and hour, is_blocking_active returns NOT allowed, where
\* allowed is start <= hour < end for start < end and hour >= start or
\* hour < end for start >= end.  Window (20,22): 21 inactive, 23 active; window
\* (23,1): 0 inactive, 12 active.  The start hour is allowed, and the end hour
\* of a window with start # end is blocked.
C8_ActiveIffOutsideWindow ==
    sched_done =>
        /\ active_ret = ~AllowedBySpec(allowed_start_hour, allowed_end_hour, current_hour)
        /\ (allowed_start_hour = 20 /\ allowed_end_hour = 22 /\ current_hour = 21 => ~active_ret)
        /\ (allowed_start_hour = 20 /\ allowed_end_hour = 22 /\ current_hour = 23 => active_ret)
        /\ (allowed_start_hour = 23 /\ allowed_end_hour = 1 /\ current_hour = 0 => ~active_ret)
        /\ (allowed_start_hour = 23 /\ allowed_end_hour = 1 /\ current_hour = 12 => active_ret)
        /\ (current_hour = allowed_start_hour => ~active_ret)
        /\ (current_hour = allowed_end_hour /\ allowed_start_hour # allowed_end_hour => active_ret)

\* the end hour of the same-day window (20,22) is blocked
C8_Witness ==
    /\ sched_done
    /\ allowed_start_hour = 20
    /\ allowed_end_hour = 22
    /\ current_hour = 22
    /\ active_ret

\* C9 as stated: with start_hour = end_hour blocking is active at every hour.
C9_ZeroWidthAlwaysBlocks ==
    sched_done /\ allowed_start_hour = allowed_end_hour => active_ret

\* C9 amended: with start_hour = end_hour the overnight branch is taken and
\* allows every hour, so is_blocking_active returns false at every hour.
C9_EqualHoursNeverBlocks ==
    sched_done /\ allowed_start_hour = allowed_end_hour => ~active_ret

\* window (9,9) at hour 15: not blocking
C9_Witness ==
    /\ sched_done
    /\ allowed_start_hour = 9
    /\ allowed_end_hour = 9
    /\ current_hour = 15
    /\ ~active_ret

(***************************************************************************)
(* Spec: the relay.  One thread runs start() and its accept loop; stop()   *)
(* is called from a signal handler or another thread at any time.          *)
(***************************************************************************)
Init ==
    /\ MatchIdle
    /\ SchedIdle
    /\ is_macos \in BOOLEAN
    /\ RelayConstructed
    /\ active_interface = "en0"
    /\ primary_service = "S1"
    /\ system_dns = <<Loopback, OtherDNS>>
    /\ dhcp_lease \in DhcpChoices

ResetRequest ==
    /\ data' = NoBytes
    /\ delegated' = FALSE
    /\ upstream_servers' = <<>>
    /\ tried' = <<>>
    /\ last_outcome' = "none"
    /\ upstream_query' = NoBytes
    /\ upstream_reply' = NoBytes
    /\ built' = "pending"
    /\ response' = NoBytes
    /\ hr_raised' = FALSE
    /\ reply_sent' = NoBytes
    /\ open_socks' = open_socks
    /\ current_hour' = 0
    /\ active_ret' = FALSE

fixedSched == <<allowed_start_hour, allowed_end_hour, sched_done>>

\* the hours at which the relay reads the clock (scheduler.py line 20): noon,
\* and the hours on both sides of each edge of the configured window
ClockReadings == {12, ALLOWED_START_HOUR - 1, ALLOWED_START_HOUR,
                  ALLOWED_END_HOUR - 1, ALLOWED_END_HOUR}

\* what bind() raises when it fails, line 151
BindErrors == {"PermissionError", "OSError_address_in_use", "OSError_other"}

\* start(), lines 152-161: what start() raises for what bind() raised; an
\* OSError is the port conflict when its text has "Address already in use"
start_raises(e) ==
    CASE e = "PermissionError" -> "PermissionError_cannot_bind"
      [] e = "OSError_address_in_use" -> "OSError_port_in_use"
      [] OTHER -> e

\* a start() that would set the flag before it binds
StartBindFails_flag_first ==
    /\ pc = "init"
    /\ \E e \in BindErrors : bind_error' = [cause |-> e, raised |-> start_raises(e)]
    /\ socket' = "unbound"
    /\ running' = TRUE
    /\ pc' = "raised"
    /\ stop_calls' = 0
    /\ UNCHANGED <<is_macos, original_upstream_dns, network_monitor,
                   monitorVars, envVars, client_pc, monitor_stop_calls,
                   start_calls, socket_closes, monitor_stops,
                   requestVars, idleVars, schedVars>>

\* start(), lines 147-161: bind raises; running stays false
StartBindFails ==
    /\ pc = "init"
    /\ \E e \in BindErrors : bind_error' = [cause |-> e, raised |-> start_raises(e)]
    /\ socket' = "unbound"
    /\ pc' = "raised"
    /\ stop_calls' = 0
    /\ UNCHANGED <<is_macos, original_upstream_dns, network_monitor, running,
                   monitorVars, envVars, client_pc, monitor_stop_calls,
                   start_calls, socket_closes, monitor_stops,
                   requestVars, idleVars, schedVars>>

\* start(), lines 147-171, with no stop() falling within them (SpecStart
\* follows them one by one): bind succeeds; on macOS the monitor is built
\* (which captures the original DNS servers, lines 179-198) and started
StartBound ==
    /\ pc = "init"
    /\ socket' = "bound"
    /\ running' = TRUE
    /\ IF is_macos
       THEN /\ LET dhcp == get_dhcp_dns_servers(active_interface, dhcp_lease)
                IN  /\ captured_dhcp' = dhcp
                    /\ captures' = captures + 1
                    /\ original_upstream_dns' =
                           _capture_original_dns(original_upstream_dns, dhcp,
                                                 system_dns, Loopback)
            /\ network_monitor' = "started"
            /\ monitor_start
            /\ start_calls' = start_calls + 1
       ELSE UNCHANGED <<original_upstream_dns, network_monitor, captured_dhcp, captures,
                        _running, _thread, threads, start_calls>>
    /\ pc' = "loop"
    /\ stop_calls' = 0
    /\ UNCHANGED <<is_macos, bind_error, _last_interface, _last_service_id,
                   seen_service, last_pass, envVars, client_pc,
                   monitor_stop_calls, socket_closes, monitor_stops,
                   requestVars, idleVars, schedVars>>

\* a loop that would go on to receive whatever the flag says
LoopTest_ignores_flag ==
    /\ pc = "loop"
    /\ pc' = "recv"
    /\ ResetRequest
    /\ UNCHANGED <<objectVars, idleVars, fixedSched>>

\* line 173: while self.running
LoopTest ==
    /\ pc = "loop"
    /\ pc' = IF running THEN "recv" ELSE "exited"
    /\ ResetRequest
    /\ UNCHANGED <<objectVars, idleVars, fixedSched>>

\* lines 175-179: no datagram within the poll timeout
RecvTimeout ==
    /\ pc = "recv"
    /\ socket = "bound"
    /\ pc' = "loop"
    /\ UNCHANGED <<objectVars, requestVars, idleVars, schedVars>>

\* line 175 after stop(): self.socket is None, the AttributeError is swallowed
RecvNoSocket ==
    /\ pc = "recv"
    /\ socket = "None"
    /\ pc' = accept_loop_except
    /\ UNCHANGED <<objectVars, requestVars, idleVars, schedVars>>

\* line 177: a datagram arrives
RecvDatagram ==
    /\ pc = "recv"
    /\ socket = "bound"
    /\ \E d \in Datagrams : data' = d
    /\ pc' = "handle"
    /\ UNCHANGED <<objectVars, open_socks, delegated, upstream_servers, tried,
                   last_outcome, upstream_query, upstream_reply, built, response,
                   hr_raised, reply_sent, idleVars, schedVars>>

\* the datagrams of SpecFair: one that does not parse, and one A query for
\* each name
FewDatagrams ==
    {Garbage} \cup {Bytes(Query(1, n, "A"), "canonical") : n \in QNames}

\* line 177 under SpecFair: a datagram arrives
RecvFewDatagrams ==
    /\ pc = "recv"
    /\ socket = "bound"
    /\ \E d \in FewDatagrams : data' = d
    /\ pc' = "handle"
    /\ UNCHANGED <<objectVars, open_socks, delegated, upstream_servers, tried,
                   last_outcome, upstream_query, upstream_reply, built, response,
                   hr_raised, reply_sent, idleVars, schedVars>>

\* handle_request lines 117-118, 135-143: the datagram does not parse
HandleUnparseable ==
    /\ pc = "handle"
    /\ ~Parseable(data)
    /\ LET r == handle_request_except(data)
       IN  /\ built' = r.built
           /\ response' = r.ret
           /\ hr_raised' = r.raised
    /\ pc' = "send"
    /\ UNCHANGED <<objectVars, open_socks, data, delegated, upstream_servers, tried,
                   last_outcome, upstream_query, upstream_reply, reply_sent,
                   idleVars, schedVars>>

\* handle_request lines 118-127: the datagram parses; the schedule and the
\* block list decide between a block response and resolve_upstream (line 74)
HandleParsed ==
    /\ pc = "handle"
    /\ Parseable(data)
    /\ \E h \in ClockReadings :
        /\ current_hour' = h
        /\ active_ret' = is_blocking_active(allowed_start_hour, allowed_end_hour, h)
    /\ LET request == parse(data)
       IN  IF should_block(active_ret', request.qname)
           THEN /\ response' = pack(create_blocked_response(request))
                /\ built' = "block"
                /\ pc' = "send"
                /\ UNCHANGED <<delegated, upstream_servers>>
           ELSE /\ delegated' = TRUE
                /\ upstream_servers' =
                       _get_upstream_dns_servers(is_macos, original_upstream_dns)
                /\ pc' = "resolve"
                /\ UNCHANGED <<response, built>>
    /\ UNCHANGED <<objectVars, open_socks, data, tried, last_outcome, upstream_query,
                   upstream_reply, hr_raised, reply_sent, idleVars, fixedSched>>

\* resolve_upstream line 77: socket.socket() raises outside the try; the error
\* leaves resolve_upstream and reaches handle_request's except clause
ResolveSocketError ==
    /\ pc = "resolve"
    /\ Len(tried) < Len(upstream_servers)
    /\ last_outcome' = "socket_create_error"
    /\ LET r == handle_request_except(data)
       IN  /\ built' = r.built
           /\ response' = r.ret
           /\ hr_raised' = r.raised
    /\ pc' = "send"
    /\ UNCHANGED <<objectVars, open_socks, data, delegated, upstream_servers, tried,
                   upstream_query, upstream_reply, reply_sent, idleVars, schedVars>>

AttemptFailures == {"timeout", "socket_error", "unparseable_reply"}

\* a loop that would contact the first candidate again instead of moving on
next_candidate_retry_first(servers, attempted) == servers[1]

\* resolve_upstream line 76: for upstream in self._get_upstream_dns_servers():
\* the candidate of the next iteration is the one after those already attempted
next_candidate(servers, attempted) == servers[Len(attempted) + 1]

\* resolve_upstream line 77: the socket of the next attempt is opened
ResolveOpen ==
    /\ pc = "resolve"
    /\ Len(tried) < Len(upstream_servers)
    /\ open_socks' = open_socks + 1
    /\ pc' = "attempt"
    /\ UNCHANGED <<objectVars, data, delegated, upstream_servers, tried,
                   last_outcome, upstream_query, upstream_reply, built, response,
                   hr_raised, reply_sent, idleVars, schedVars>>

\* an attempt whose failure would leave its socket open
ResolveAttemptFails_leaks ==
    /\ pc = "attempt"
    /\ \E f \in AttemptFailures : last_outcome' = f
    /\ tried' = Append(tried, next_candidate(upstream_servers, tried))
    /\ upstream_query' = forward_query(data)
    /\ pc' = "resolve"
    /\ UNCHANGED <<objectVars, open_socks, data, delegated, upstream_servers,
                   upstream_reply, built, response, hr_raised, reply_sent,
                   idleVars, schedVars>>

\* resolve_upstream lines 78-86: the attempt fails (the wait times out, the
\* socket raises, or the reply does not parse); finally closes the socket and
\* the loop goes on to the next candidate
ResolveAttemptFails ==
    /\ pc = "attempt"
    /\ \E f \in AttemptFailures : last_outcome' = f
    /\ tried' = Append(tried, next_candidate(upstream_servers, tried))
    /\ upstream_query' = forward_query(data)
    /\ open_socks' = open_socks - 1
    /\ pc' = "resolve"
    /\ UNCHANGED <<objectVars, data, delegated, upstream_servers,
                   upstream_reply, built, response, hr_raised, reply_sent,
                   idleVars, schedVars>>

\* resolve_upstream lines 78-86 and handle_request line 133: the attempt
\* succeeds; finally closes the socket, the reply is parsed, returned, and
\* packed for the client
ResolveAttemptSucceeds ==
    /\ pc = "attempt"
    /\ last_outcome' = "ok"
    /\ tried' = Append(tried, next_candidate(upstream_servers, tried))
    /\ upstream_query' = forward_query(data)
    /\ \E r \in UpstreamReplies(parse(data)) :
        /\ upstream_reply' = r
        /\ response' = relay_upstream(r)
    /\ built' = "upstream"
    /\ open_socks' = open_socks - 1
    /\ pc' = "send"
    /\ UNCHANGED <<objectVars, data, delegated, upstream_servers, hr_raised,
                   reply_sent, idleVars, schedVars>>

\* resolve_upstream line 88 and handle_request lines 128-133: every candidate
\* failed, resolve_upstream returns None, handle_request answers SERVFAIL
ResolveExhausted ==
    /\ pc = "resolve"
    /\ Len(tried) = Len(upstream_servers)
    /\ response' = pack(upstream_unavailable(parse(data)))
    /\ built' = "servfail_upstream"
    /\ pc' = "send"
    /\ UNCHANGED <<objectVars, open_socks, data, delegated, upstream_servers, tried,
                   last_outcome, upstream_query, upstream_reply, hr_raised,
                   reply_sent, idleVars, schedVars>>

\* line 182: handle_request returned b"", nothing is sent
SendNothing ==
    /\ pc = "send"
    /\ ~hr_raised
    /\ response = NoBytes
    /\ pc' = "loop"
    /\ UNCHANGED <<objectVars, requestVars, idleVars, schedVars>>

\* line 183: the reply goes to the client
SendReply ==
    /\ pc = "send"
    /\ ~hr_raised
    /\ response # NoBytes
    /\ socket = "bound"
    /\ reply_sent' = response
    /\ pc' = "loop"
    /\ UNCHANGED <<objectVars, open_socks, data, delegated, upstream_servers, tried,
                   last_outcome, upstream_query, upstream_reply, built, response,
                   hr_raised, idleVars, schedVars>>

\* lines 181-186: handle_request raised, or line 183 raises (sendto fails, or
\* self.socket is None after stop()): the loop's except clause swallows it
SendFails ==
    /\ pc = "send"
    /\ (hr_raised \/ response # NoBytes)
    /\ pc' = accept_loop_except
    /\ UNCHANGED <<objectVars, requestVars, idleVars, schedVars>>

\* stop(), lines 190 and 193: self.running = False, then the test of
\* self._network_monitor (a field only this thread writes after start())
StopFlag ==
    /\ client_pc = "idle"
    /\ stop_calls < MaxStops
    /\ stop_calls' = stop_calls + 1
    /\ running' = FALSE
    /\ client_pc' = IF network_monitor = "None" THEN "stop_socket" ELSE "stop_monitor"
    /\ UNCHANGED <<is_macos, original_upstream_dns, network_monitor, socket, pc,
                   bind_error, monitorVars, envVars, monitor_stop_calls,
                   start_calls, socket_closes, monitor_stops,
                   requestVars, idleVars, schedVars>>

\* stop(), line 194 and NetworkMonitor.stop line 275: the monitor's stop()
\* begins and clears its flag
StopMonitor ==
    /\ client_pc = "stop_monitor"
    /\ _running' = FALSE
    /\ monitor_stops' = monitor_stops + 1
    /\ monitor_stop_calls' = monitor_stop_calls + 1
    /\ client_pc' = "stop_join"
    /\ UNCHANGED <<is_macos, original_upstream_dns, network_monitor, running,
                   socket, pc, bind_error, _thread, _last_interface,
                   _last_service_id, threads, captured_dhcp, captures, seen_service,
                   last_pass, envVars, stop_calls, start_calls, socket_closes,
                   requestVars, idleVars, schedVars>>

\* NetworkMonitor.stop lines 276-278 and stop() line 195: the join, then
\* self._network_monitor = None
StopJoin ==
    /\ client_pc = "stop_join"
    /\ monitor_join
    /\ network_monitor' = "None"
    /\ client_pc' = "stop_socket"
    /\ UNCHANGED <<is_macos, original_upstream_dns, running, socket, pc,
                   bind_error, _running, _last_interface, _last_service_id,
                   captured_dhcp, captures, seen_service, last_pass, envVars, stop_calls,
                   monitor_stop_calls, start_calls, socket_closes, monitor_stops,
                   requestVars, idleVars, schedVars>>

\* a stop() that would close the socket without looking at the field
StopSocket_unguarded ==
    /\ client_pc = "stop_socket"
    /\ socket_closes' = socket_closes + 1
    /\ socket' = "None"
    /\ client_pc' = "idle"
    /\ UNCHANGED <<is_macos, original_upstream_dns, network_monitor, running, pc,
                   bind_error, monitorVars, envVars, stop_calls,
                   monitor_stop_calls, start_calls, monitor_stops,
                   requestVars, idleVars, schedVars>>

\* stop(), lines 197-199: close the socket if there is one, then forget it
StopSocket ==
    /\ client_pc = "stop_socket"
    /\ IF socket = "None"
       THEN UNCHANGED <<socket, socket_closes>>
       ELSE /\ socket_closes' = socket_closes + 1
            /\ socket' = "None"
    /\ client_pc' = "idle"
    /\ UNCHANGED <<is_macos, original_upstream_dns, network_monitor, running, pc,
                   bind_error, monitorVars, envVars, stop_calls,
                   monitor_stop_calls, start_calls, monitor_stops,
                   requestVars, idleVars, schedVars>>

Next ==
    \/ StartBindFails
    \/ StartBound
    \/ LoopTest
    \/ RecvTimeout
    \/ RecvNoSocket
    \/ RecvDatagram
    \/ HandleUnparseable
    \/ HandleParsed
    \/ ResolveSocketError
    \/ ResolveOpen
    \/ ResolveAttemptFails
    \/ ResolveAttemptSucceeds
    \/ ResolveExhausted
    \/ SendNothing
    \/ SendReply
    \/ SendFails
    \/ StopFlag
    \/ StopMonitor
    \/ StopJoin
    \/ StopSocket

Spec == Init /\ [][Next]_vars

\* the steps of the accept loop, with the datagrams of SpecFair
ServerThread ==
    \/ LoopTest
    \/ RecvTimeout
    \/ RecvNoSocket
    \/ RecvFewDatagrams
    \/ HandleUnparseable
    \/ HandleParsed
    \/ ResolveSocketError
    \/ ResolveOpen
    \/ ResolveAttemptFails
    \/ ResolveAttemptSucceeds
    \/ ResolveExhausted
    \/ SendNothing
    \/ SendReply
    \/ SendFails

\* the steps of a stop() that has begun
StopCall == StopMonitor \/ StopJoin \/ StopSocket

FairNext ==
    \/ StartBindFails
    \/ StartBound
    \/ ServerThread
    \/ StopFlag
    \/ StopCall

\* the relay with its scheduling: the accept-loop thread keeps running
\* (recvfrom returns within its 1 s timeout, every upstream attempt within its
\* 3 s timeout), and a stop() that has begun runs to its end (the join is
\* bounded)
SpecFair ==
    /\ Init
    /\ [][FairNext]_vars
    /\ WF_vars(ServerThread)
    /\ WF_vars(StopCall)

(***************************************************************************)
(* SpecMonitor: the NetworkMonitor that the relay builds on macOS, its     *)
(* loop threads, the operating system, and a thread that calls stop() on   *)
(* the relay and start() and stop() on the monitor.  The steps of the      *)
(* accept loop are those of Spec: they write nothing that is read here.    *)
(***************************************************************************)
\* a NetworkMonitor has been constructed (dns_server.py lines 166-170)
MonitorExists == is_macos /\ pc \notin {"init", "raised"}

\* the fields of the relay, which the monitor's threads never touch
relayFields == <<is_macos, original_upstream_dns, network_monitor, running,
                 socket, pc, bind_error>>

\* _monitor_loop line 253: the first pass, self._configure_dns()
MonitorInitialPass ==
    \E t \in DOMAIN threads :
        /\ threads[t].pc = "initial"
        /\ \E global_success, service_success \in BOOLEAN :
            LET r == _configure_dns(global_success, primary_service,
                                    service_success, _last_service_id)
            IN  /\ _last_service_id' = r.last_service_id
                /\ system_dns' = IF r.success THEN <<Loopback>> ELSE system_dns
                /\ last_pass' = AppliedPass(r)
                /\ threads' = [threads EXCEPT
                                 ![t].pc = "test",
                                 ![t].initial_pass =
                                     IF r.success THEN "applied" ELSE "failed"]
        /\ UNCHANGED <<relayFields, requestVars, _running, _thread,
                       _last_interface, captured_dhcp, captures, seen_service,
                       active_interface, primary_service, dhcp_lease,
                       clientVars, idleVars, schedVars>>

\* _monitor_loop line 253: a subprocess call of the first pass raises; the
\* call is outside the try, so the thread dies
MonitorInitialRaises ==
    \E t \in DOMAIN threads :
        /\ threads[t].pc = "initial"
        /\ threads' = [threads EXCEPT ![t].pc = "crashed",
                                      ![t].initial_pass = "raised"]
        /\ last_pass' = RaisedPass
        /\ UNCHANGED <<relayFields, requestVars, _running, _thread,
                       _last_interface, _last_service_id, captured_dhcp, captures,
                       seen_service, envVars, clientVars, idleVars, schedVars>>

\* _monitor_loop line 255: while self._running
MonitorLoopTest ==
    \E t \in DOMAIN threads :
        /\ threads[t].pc = "test"
        /\ threads' = [threads EXCEPT
                         ![t].pc = IF _running THEN "sleep" ELSE "exited"]
        /\ UNCHANGED <<relayFields, requestVars, _running, _thread,
                       _last_interface, _last_service_id, captured_dhcp, captures,
                       seen_service, last_pass, envVars, clientVars,
                       idleVars, schedVars>>

\* _monitor_loop lines 256-257: the sleep ends; if self._running
MonitorWake ==
    \E t \in DOMAIN threads :
        /\ threads[t].pc = "sleep"
        /\ threads' = [threads EXCEPT
                         ![t].pc = IF _running THEN "check" ELSE "test"]
        /\ UNCHANGED <<relayFields, requestVars, _running, _thread,
                       _last_interface, _last_service_id, captured_dhcp, captures,
                       seen_service, last_pass, envVars, clientVars,
                       idleVars, schedVars>>

\* _monitor_loop line 259: a tick, _check_and_configure_dns (lines 225-248)
\* with _configure_dns (lines 200-223) when line 239 asks for it
MonitorTick ==
    \E t \in DOMAIN threads :
        /\ threads[t].pc = "check"
        /\ LET current_interface == active_interface
               current_service_id == primary_service
               dns_correct == is_dns_configured(Loopback, system_dns)
           IN  /\ IF needs_configure(current_interface, current_service_id,
                                     _last_interface, _last_service_id,
                                     dns_correct)
                  THEN \E global_success, service_success \in BOOLEAN :
                        LET r == _configure_dns(global_success, primary_service,
                                                service_success, _last_service_id)
                        IN  /\ system_dns' =
                                   IF r.success THEN <<Loopback>> ELSE system_dns
                            /\ last_pass' = AppliedPass(r)
                            /\ _last_service_id' =
                                   IF current_service_id # None
                                   THEN current_service_id
                                   ELSE r.last_service_id
                  ELSE /\ system_dns' = system_dns
                       /\ last_pass' = NoPass
                       /\ _last_service_id' =
                              IF current_service_id # None
                              THEN current_service_id
                              ELSE _last_service_id
               /\ _last_interface' = current_interface
               /\ seen_service' = current_service_id
        /\ threads' = [threads EXCEPT ![t].pc = "test"]
        /\ UNCHANGED <<relayFields, requestVars, _running, _thread,
                       captured_dhcp, captures, active_interface, primary_service,
                       dhcp_lease, clientVars, idleVars, schedVars>>

\* _monitor_loop lines 258-262: a subprocess call of the tick raises before
\* anything is written; the except clause swallows the error
MonitorTickRaises ==
    \E t \in DOMAIN threads :
        /\ threads[t].pc = "check"
        /\ threads' = [threads EXCEPT ![t].pc = tick_except]
        /\ last_pass' = RaisedPass
        /\ UNCHANGED <<relayFields, requestVars, _running, _thread,
                       _last_interface, _last_service_id, captured_dhcp, captures,
                       seen_service, envVars, clientVars, idleVars, schedVars>>

\* the network changes: another interface, another primary service, or the
\* system's resolvers are rewritten (a DHCP renewal, a VPN, the user)
EnvChange ==
    /\ \E i \in Interfaces, sv \in Services, d \in ScutilChoices :
        /\ <<i, sv, d>> # <<active_interface, primary_service, system_dns>>
        /\ active_interface' = i
        /\ primary_service' = sv
        /\ system_dns' = d
    /\ UNCHANGED <<relayFields, requestVars, monitorVars, dhcp_lease, clientVars,
                   idleVars, schedVars>>

\* NetworkMonitor.start(), lines 264-271, called on the monitor
MonitorStart ==
    /\ client_pc = "idle"
    /\ MonitorExists
    /\ start_calls < MaxStarts
    /\ start_calls' = start_calls + 1
    /\ monitor_stop_calls' = IF _running THEN monitor_stop_calls ELSE 0
    /\ monitor_start
    /\ UNCHANGED <<relayFields, requestVars, _last_interface, _last_service_id,
                   captured_dhcp, captures, seen_service, last_pass, envVars, client_pc,
                   stop_calls, socket_closes, monitor_stops,
                   idleVars, schedVars>>

\* NetworkMonitor.stop(), line 275, called on the monitor: the flag is cleared
MonitorStop ==
    /\ client_pc = "idle"
    /\ MonitorExists
    /\ monitor_stop_calls < MaxStops
    /\ monitor_stop_calls' = monitor_stop_calls + 1
    /\ _running' = FALSE
    /\ client_pc' = "mstop_join"
    /\ UNCHANGED <<relayFields, requestVars, _thread, _last_interface,
                   _last_service_id, threads, captured_dhcp, captures, seen_service,
                   last_pass, envVars, stop_calls, start_calls, socket_closes,
                   monitor_stops, idleVars, schedVars>>

\* NetworkMonitor.stop(), lines 276-278: the join, and the handle is dropped
MonitorStopJoin ==
    /\ client_pc = "mstop_join"
    /\ monitor_join
    /\ client_pc' = "idle"
    /\ UNCHANGED <<relayFields, requestVars, _running, _last_interface,
                   _last_service_id, captured_dhcp, captures, seen_service, last_pass,
                   envVars, stop_calls, monitor_stop_calls, start_calls,
                   socket_closes, monitor_stops, idleVars, schedVars>>

\* the relay constructed, on a network that stays as it is: one interface,
\* one service, a DHCP lease with one server, the network's own resolver
MonitorInit ==
    /\ MatchIdle
    /\ SchedIdle
    /\ is_macos \in BOOLEAN
    /\ RelayConstructed
    /\ active_interface = "en0"
    /\ primary_service = "S1"
    /\ system_dns = <<OtherDNS>>
    /\ dhcp_lease = <<RouterDNS>>

\* the life cycle: every call, no change of the network
MonitorNext ==
    \/ StartBindFails
    \/ StartBound
    \/ StopFlag
    \/ StopMonitor
    \/ StopJoin
    \/ StopSocket
    \/ MonitorStart
    \/ MonitorStop
    \/ MonitorStopJoin
    \/ MonitorInitialPass
    \/ MonitorInitialRaises
    \/ MonitorLoopTest
    \/ MonitorWake
    \/ MonitorTick
    \/ MonitorTickRaises

SpecMonitor == MonitorInit /\ [][MonitorNext]_vars

\* the steps a loop thread takes on its own outside a pass: the while test,
\* and the end of its sleep
MonitorWaits == MonitorLoopTest \/ MonitorWake

\* the relay started on macOS, on the network of MonitorInit
StopInit ==
    /\ MonitorInit
    /\ is_macos

\* the monitor's own life cycle: its start() and stop() and its loop threads
StopNext ==
    \/ StartBound
    \/ MonitorStart
    \/ MonitorStop
    \/ MonitorStopJoin
    \/ MonitorInitialPass
    \/ MonitorInitialRaises
    \/ MonitorLoopTest
    \/ MonitorWake
    \/ MonitorTick
    \/ MonitorTickRaises

\* the monitor's life cycle with its scheduling: a sleep ends after
\* check_interval and the while test takes no time, and the thread that called
\* stop() runs (its join ends when the thread has finished or after
\* check_interval + 1 s); nothing bounds a pass, whose subprocess calls have
\* no timeout
SpecStop ==
    /\ StopInit
    /\ [][StopNext]_vars
    /\ WF_vars(MonitorWaits)
    /\ WF_vars(MonitorStopJoin)

\* the relay on macOS, in any state of the network
TickInit ==
    /\ MatchIdle
    /\ SchedIdle
    /\ is_macos = TRUE
    /\ RelayConstructed
    /\ active_interface \in Interfaces
    /\ primary_service \in Services
    /\ system_dns \in ScutilChoices
    /\ dhcp_lease = <<RouterDNS>>

\* the loop of the monitor the relay started, the network changing under it,
\* and stop() called on the monitor
TickNext ==
    \/ StartBound
    \/ MonitorInitialPass
    \/ MonitorInitialRaises
    \/ MonitorLoopTest
    \/ MonitorWake
    \/ MonitorTick
    \/ MonitorTickRaises
    \/ EnvChange
    \/ MonitorStop
    \/ MonitorStopJoin

SpecTick == TickInit /\ [][TickNext]_vars

(***************************************************************************)
(* SpecStart: start() followed statement by statement, while stop() is     *)
(* called from another thread or a signal handler at any point of it; the  *)
(* accept loop with no datagram arriving, and the monitor's loop thread.   *)
(***************************************************************************)
\* the fields of the relay and of the monitor that start() writes
startFrame == <<is_macos, _last_interface, _last_service_id, seen_service,
                last_pass, envVars, client_pc, monitor_stop_calls,
                socket_closes, monitor_stops, requestVars, idleVars, schedVars>>

\* start(), lines 147-148: the socket is created
StartCreate ==
    /\ pc = "init"
    /\ socket' = "unbound"
    /\ pc' = "start_bind"
    /\ stop_calls' = 0
    /\ UNCHANGED <<original_upstream_dns, network_monitor, running, bind_error,
                   _running, _thread, threads, captured_dhcp, captures,
                   start_calls, startFrame>>

\* start(), lines 150-161: bind raises and start() raises for it; after a
\* stop() self.socket is None and line 151 raises an AttributeError that no
\* except clause of start() catches
StartBindError ==
    /\ pc = "start_bind"
    /\ IF socket = "None"
       THEN bind_error' = [cause |-> "AttributeError", raised |-> "AttributeError"]
       ELSE \E e \in BindErrors :
               bind_error' = [cause |-> e, raised |-> start_raises(e)]
    /\ pc' = "raised"
    /\ UNCHANGED <<original_upstream_dns, network_monitor, running, socket,
                   _running, _thread, threads, captured_dhcp, captures,
                   stop_calls, start_calls, startFrame>>

\* start(), line 151: bind succeeds
StartBind ==
    /\ pc = "start_bind"
    /\ socket = "unbound"
    /\ socket' = "bound"
    /\ pc' = "start_flag"
    /\ UNCHANGED <<original_upstream_dns, network_monitor, running, bind_error,
                   _running, _thread, threads, captured_dhcp, captures,
                   stop_calls, start_calls, startFrame>>

\* start(), lines 163 and 166: self.running = True, then the platform test
StartFlag ==
    /\ pc = "start_flag"
    /\ running' = TRUE
    /\ pc' = IF is_macos THEN "start_construct" ELSE "loop"
    /\ UNCHANGED <<original_upstream_dns, network_monitor, socket, bind_error,
                   _running, _thread, threads, captured_dhcp, captures,
                   stop_calls, start_calls, startFrame>>

\* a constructor that would leave the capture to the loop thread
StartConstruct_defers_capture ==
    /\ pc = "start_construct"
    /\ network_monitor' = "started"
    /\ pc' = "start_monitor"
    /\ UNCHANGED <<original_upstream_dns, running, socket, bind_error, _running,
                   _thread, threads, captured_dhcp, captures, stop_calls,
                   start_calls, startFrame>>

\* start(), lines 167-170: the NetworkMonitor is constructed; its __init__
\* (network_monitor.py lines 170-180) ends with the capture of the original
\* servers (lines 182-198)
StartConstruct ==
    /\ pc = "start_construct"
    /\ LET dhcp == get_dhcp_dns_servers(active_interface, dhcp_lease)
       IN  /\ captured_dhcp' = dhcp
           /\ captures' = captures + 1
           /\ original_upstream_dns' =
                  _capture_original_dns(original_upstream_dns, dhcp,
                                        system_dns, Loopback)
    /\ network_monitor' = "started"
    /\ pc' = "start_monitor"
    /\ UNCHANGED <<running, socket, bind_error, _running, _thread, threads,
                   stop_calls, start_calls, startFrame>>

\* start(), line 171: self._network_monitor.start(); after a stop() the field
\* is None and the call raises an AttributeError
StartMonitor ==
    /\ pc = "start_monitor"
    /\ IF network_monitor = "None"
       THEN /\ bind_error' = [cause |-> "none", raised |-> "AttributeError"]
            /\ pc' = "raised"
            /\ UNCHANGED <<_running, _thread, threads, start_calls>>
       ELSE /\ monitor_start
            /\ start_calls' = start_calls + 1
            /\ pc' = "loop"
            /\ UNCHANGED bind_error
    /\ UNCHANGED <<original_upstream_dns, network_monitor, running, socket,
                   captured_dhcp, captures, stop_calls, startFrame>>

StartNext ==
    \/ StartCreate
    \/ StartBindError
    \/ StartBind
    \/ StartFlag
    \/ StartConstruct
    \/ StartMonitor
    \/ LoopTest
    \/ RecvTimeout
    \/ RecvNoSocket
    \/ StopFlag
    \/ StopMonitor
    \/ StopJoin
    \/ StopSocket
    \/ MonitorInitialPass
    \/ MonitorInitialRaises
    \/ MonitorLoopTest
    \/ MonitorWake
    \/ MonitorTick
    \/ MonitorTickRaises

SpecStart == MonitorInit /\ [][StartNext]_vars

(***************************************************************************)
(* SpecCapture: one call of _get_upstream_dns_servers followed line by     *)
(* line, while NetworkMonitor objects are constructed by another thread    *)
(* (a start() of the relay after a stop(), while the accept loop of the    *)
(* first start() still resolves a query) and the machine changes network.  *)
(***************************************************************************)
\* an update that would fill the shared list element by element
publish_in_place(old, new) == {SubSeq(new, 1, n) : n \in 0..Len(new)}

\* network_monitor.py lines 187 and 198: the class attribute is bound to the
\* new list in one assignment; what a reader may find there afterwards
publish(old, new) == {new}

\* what the steps of SpecCapture leave alone
captureFrame == <<matchVars, schedVars, is_macos, network_monitor, running,
                  socket, pc, bind_error, data, delegated, tried, last_outcome,
                  upstream_query, upstream_reply, built, response, hr_raised,
                  reply_sent, open_socks, monitorVars, active_interface,
                  primary_service, clientVars>>

\* _get_upstream_dns_servers lines 60-65: servers = [], then the test of
\* NetworkMonitor.original_upstream_dns (the first read of the attribute)
ListTest ==
    /\ ~tested_dns.read
    /\ tested_dns' = Tested(IF is_macos THEN original_upstream_dns ELSE <<>>)
    /\ published' = {original_upstream_dns}
    /\ UNCHANGED <<original_upstream_dns, upstream_servers, dhcp_lease,
                   system_dns, captureFrame>>

\* _get_upstream_dns_servers lines 66-70: servers.extend(...) reads the
\* attribute again and copies the list it finds; then the fallback
ListExtend ==
    /\ tested_dns.read
    /\ upstream_servers = <<>>
    /\ upstream_servers' =
           IF tested_dns.list # <<>>
           THEN _get_upstream_dns_servers(is_macos, original_upstream_dns)
           ELSE _get_upstream_dns_servers(is_macos, <<>>)
    /\ UNCHANGED <<original_upstream_dns, tested_dns, published, dhcp_lease,
                   system_dns, captureFrame>>

\* resolve_upstream has used the list; the next query calls again
ListReturn ==
    /\ upstream_servers # <<>>
    /\ upstream_servers' = <<>>
    /\ tested_dns' = NotTested
    /\ published' = {}
    /\ UNCHANGED <<original_upstream_dns, dhcp_lease, system_dns, captureFrame>>

\* NetworkMonitor.__init__ lines 179-198 in another thread: the capture
Capture ==
    /\ is_macos
    /\ LET new == _capture_original_dns(
                      original_upstream_dns,
                      get_dhcp_dns_servers(active_interface, dhcp_lease),
                      system_dns, Loopback)
       IN  /\ new # original_upstream_dns
           /\ original_upstream_dns' \in publish(original_upstream_dns, new)
           /\ published' = IF ~tested_dns.read THEN published
                           ELSE published \cup {new}
    /\ UNCHANGED <<upstream_servers, tested_dns, dhcp_lease, system_dns,
                   captureFrame>>

\* the machine joins another network: another lease, other resolvers
NetworkMoves ==
    /\ \E l \in DhcpChoices, d \in ScutilChoices :
        /\ <<l, d>> # <<dhcp_lease, system_dns>>
        /\ dhcp_lease' = l
        /\ system_dns' = d
    /\ UNCHANGED <<original_upstream_dns, upstream_servers, tested_dns,
                   published, captureFrame>>

CaptureInit ==
    /\ MatchIdle
    /\ SchedIdle
    /\ is_macos = TRUE
    /\ RelayConstructed
    /\ active_interface = "en0"
    /\ primary_service = "S1"
    /\ system_dns \in ScutilChoices
    /\ dhcp_lease \in DhcpChoices

CaptureNext == ListTest \/ ListExtend \/ ListReturn \/ Capture \/ NetworkMoves

SpecCapture == CaptureInit /\ [][CaptureNext]_vars

(***************************************************************************)
(* Properties of the relay (Spec)                                          *)
(***************************************************************************)
\* handle_request has decided what to do with the datagram it parsed
Decided == Parseable(data) /\ pc \in {"resolve", "attempt", "send", "loop"}

\* the schedule's answer for the hour the clock gave this request
ActiveAtCheck ==
    is_blocking_active(allowed_start_hour, allowed_end_hour, current_hour)

\* C1: for every parseable query, handle_request synthesizes a block response
\* if and only if blocking is active at the time of the check and the queried
\* name matches the block list; in every other case the query is delegated to
\* the upstream resolver and no block response is built.  What is sent to the
\* client is what handle_request returned.
C1_BlockIffActiveAndBlocked ==
    Decided =>
        /\ (built = "block") <=> (ActiveAtCheck /\ is_domain_blocked(parse(data).qname))
        /\ (built = "block" => ~delegated /\ tried = <<>> /\ upstream_query = NoBytes)
        /\ (built # "block" => delegated)
        /\ reply_sent \in {NoBytes, response}

\* a blocked name during blocking hours was answered with a block response
C1_Witness ==
    /\ pc = "loop"
    /\ Parseable(data)
    /\ built = "block"
    /\ current_hour = 12
    /\ reply_sent = response
    /\ reply_sent # NoBytes

AllUpstreamsFailed ==
    /\ Decided
    /\ pc \notin {"resolve", "attempt"}
    /\ delegated
    /\ tried = upstream_servers
    /\ last_outcome \in AttemptFailures

\* C3: when every upstream candidate fails, handle_request returns a SERVFAIL
\* (rcode 2) reply to the query and raises nothing; the accept loop does not
\* end: it returns to its while test, and from there goes on to receive as
\* long as stop() has not cleared the running flag.
C3_AllUpstreamsFailServfail ==
    /\ [](AllUpstreamsFailed =>
            /\ built = "servfail_upstream"
            /\ Parseable(response)
            /\ parse(response).rcode = 2
            /\ parse(response).id = parse(data).id
            /\ parse(response).answers = <<>>
            /\ ~hr_raised
            /\ reply_sent \in {NoBytes, response})
    /\ [](pc \in {"init", "raised", "loop", "recv", "handle", "resolve", "attempt",
                "send", "exited"})
    /\ [][AllUpstreamsFailed /\ pc = "send" => pc' \in {"send", "loop"}]_vars
    /\ [][pc = "loop" /\ pc' # "loop" => pc' = (IF running THEN "recv" ELSE "exited")]_vars

\* with two candidates, both failed, the SERVFAIL went out and the loop is
\* back at its while test with running still set
C3_Witness ==
    /\ AllUpstreamsFailed
    /\ Len(tried) = 2
    /\ pc = "loop"
    /\ running
    /\ reply_sent = response
    /\ parse(response).rcode = 2

\* a query for a blocked name, outside blocking hours, answered by an upstream
InactivePassThrough ==
    /\ Decided
    /\ is_domain_blocked(parse(data).qname)
    /\ ~ActiveAtCheck
    /\ built = "upstream"

C10_ErrorsDropOrServfail ==
    /\ (data = Garbage /\ pc \in {"send", "loop"} =>
            /\ built = "empty"
            /\ response = NoBytes
            /\ reply_sent = NoBytes)
    /\ (Parseable(data) /\ last_outcome = "socket_create_error" =>
            /\ pc \in {"send", "loop"}
            /\ built = "servfail_error"
            /\ Parseable(response)
            /\ parse(response).rcode = 2
            /\ parse(response).id = parse(data).id
            /\ reply_sent \in {NoBytes, response})
    /\ ~hr_raised

\* the socket for the second candidate could not be opened; the client got a
\* SERVFAIL with its transaction ID
C10_Witness ==
    /\ Parseable(data)
    /\ last_outcome = "socket_create_error"
    /\ Len(tried) = 1
    /\ parse(data).id = 2
    /\ reply_sent = response
    /\ parse(reply_sent).rcode = 2
    /\ parse(reply_sent).id = 2

(***************************************************************************)
(* resolve_upstream: the order of the attempts                             *)
(***************************************************************************)
IsPrefix(p, q) == Len(p) <= Len(q) /\ p = SubSeq(q, 1, Len(p))

\* C11: resolve_upstream tries the candidates strictly in list order and at most
\* once each (the attempts made are always a prefix of the list); it attempts
\* the next candidate only after the attempt before it failed; the reply it
\* returns is that of the first attempt that succeeded, and no candidate is
\* contacted after a success; it returns None (answered with SERVFAIL) only
\* when every candidate of the list was attempted and every attempt failed.
C11_InOrderFirstSuccess ==
    /\ [](IsPrefix(tried, upstream_servers))
    /\ [](built = "upstream" =>
            /\ tried # <<>>
            /\ last_outcome = "ok"
            /\ response = pack(parse(upstream_reply)))
    /\ [](built = "servfail_upstream" =>
            /\ upstream_servers # <<>>
            /\ tried = upstream_servers
            /\ last_outcome \in AttemptFailures)
    /\ [][tried' # tried /\ tried' # <<>> =>
            /\ upstream_servers' = upstream_servers
            /\ tried' = Append(tried, upstream_servers[Len(tried) + 1])
            /\ (tried # <<>> => last_outcome \in AttemptFailures)]_vars
    /\ [][last_outcome = "ok" => tried' = tried \/ tried' = <<>>]_vars

\* the second of three candidates answered after the first failed; the third
\* was never contacted
C11_Witness ==
    /\ Len(upstream_servers) = 3
    /\ tried = SubSeq(upstream_servers, 1, 2)
    /\ built = "upstream"
    /\ pc = "loop"
    /\ reply_sent = response

(***************************************************************************)
(* _get_upstream_dns_servers: the list of a query                          *)
(***************************************************************************)
\* C12: at every query that is forwarded, the list of candidates is non-empty
\* and contains the configured fallback server; when the monitor captured DHCP
\* servers, they are the head of the list, in their captured order, and
\* nothing follows them but the fallback.
C12_FallbackPresentDhcpFirst ==
    delegated =>
        /\ upstream_servers # <<>>
        /\ UPSTREAM_DNS \in Range(upstream_servers)
        /\ (captured_dhcp # <<>> =>
              /\ IsPrefix(captured_dhcp, upstream_servers)
              /\ \A i \in (Len(captured_dhcp) + 1)..Len(upstream_servers) :
                    upstream_servers[i] = UPSTREAM_DNS)

\* a query forwarded with two captured DHCP servers ahead of the fallback
C12_Witness ==
    /\ delegated
    /\ captured_dhcp = <<RouterDNS, OtherDNS>>
    /\ upstream_servers = <<RouterDNS, OtherDNS, UPSTREAM_DNS>>
    /\ pc = "resolve"

(***************************************************************************)
(* stop() against the accept loop                                          *)
(***************************************************************************)
LoopPcs == {"loop", "recv", "handle", "resolve", "attempt", "send"}

\* a receive begins: recvfrom is called on the socket and returns a datagram
\* or times out
ReceiveStarts == pc = "recv" /\ pc' \in {"handle", "loop"} /\ socket = "bound"

\* the loop exits after a stop() that found it running
LoopExitsAfterStop == (pc \in LoopPcs /\ ~running) ~> (pc = "exited")

\* a forward in progress is not cut short: resolve_upstream runs until it
\* returns or raises
ForwardCompletes ==
    [][(pc \in {"resolve", "attempt"})
            => pc' \in {"resolve", "attempt", "send"}]_vars

\* C13 as stated: after stop() is called while the accept loop runs, the loop
\* exits; once the running flag is false no receive starts; a forward in
\* progress completes first; the loop ends although the socket is gone.
C13_NoReceiveAfterFlag ==
    /\ LoopExitsAfterStop
    /\ ForwardCompletes
    /\ [][~running => ~ReceiveStarts]_vars

\* C13: after stop() is called while the accept loop runs, the loop exits; once
\* the running flag is false the while test never passes again, so that no
\* new iteration begins (an iteration whose while test passed before the flag
\* was cleared still does its one receive); a forward in progress completes
\* first; and with the socket closed and None the iteration in progress ends
\* in the loop's except clause and the loop exits at its next while test.
C13_NoIterationAfterFlag ==
    /\ LoopExitsAfterStop
    /\ ForwardCompletes
    /\ [][~running => ~(pc = "loop" /\ pc' = "recv")]_vars
    /\ [][pc = "recv" /\ socket = "None" => pc' \in {"recv", "loop"}]_vars

\* the loop has exited after one complete stop()
C13_Witness ==
    /\ pc = "exited"
    /\ ~running
    /\ socket = "None"
    /\ stop_calls = 1
    /\ client_pc = "idle"

(***************************************************************************)
(* start(): a bind that fails                                              *)
(***************************************************************************)
\* C15: when bind fails, start() raises (a PermissionError as the
\* cannot-bind PermissionError, an address-in-use OSError as the port-in-use
\* OSError, any other OSError as itself), and the startup is abandoned: the
\* running flag is false, no monitor is built or started, the accept loop is
\* never entered, and the thread never leaves the raise (no second bind).
C15_BindFailureAbandonsStartup ==
    /\ [](pc = "raised" =>
            /\ bind_error.cause \in BindErrors
            /\ (bind_error.cause = "PermissionError"
                    => bind_error.raised = "PermissionError_cannot_bind")
            /\ (bind_error.cause = "OSError_address_in_use"
                    => bind_error.raised = "OSError_port_in_use")
            /\ (bind_error.cause = "OSError_other"
                    => bind_error.raised = "OSError_other")
            /\ ~running
            /\ network_monitor = "None"
            /\ ~_running
            /\ threads = <<>>
            /\ socket # "bound"
            /\ RequestIdle)
    /\ [](pc # "raised" => bind_error.raised = "none")
    /\ [][pc = "raised" => pc' = "raised"]_vars

\* start() raised the port conflict
C15_Witness ==
    /\ pc = "raised"
    /\ bind_error = [cause |-> "OSError_address_in_use",
                     raised |-> "OSError_port_in_use"]
    /\ socket = "unbound"

(***************************************************************************)
(* the transaction ID and the question of a reply                          *)
(***************************************************************************)
\* C20: every reply the relay sends carries the transaction ID and the question
\* (name and type) of the query it answers, whichever statement built it.
C20_ReplyEchoesIdAndQuestion ==
    reply_sent # NoBytes =>
        /\ parse(reply_sent).id = parse(data).id
        /\ parse(reply_sent).qname = parse(data).qname
        /\ parse(reply_sent).qtype = parse(data).qtype

(***************************************************************************)
(* stop() twice in a row                                                   *)
(***************************************************************************)
\* a step of a FocusBlockerDNS.stop() that follows another with no start()
\* in between
SecondRelayStopStep ==
    \/ (client_pc = "idle" /\ stop_calls >= 1 /\ stop_calls' = stop_calls + 1)
    \/ (/\ client_pc \in {"stop_monitor", "stop_join", "stop_socket"}
        /\ stop_calls >= 2
        /\ stop_calls' = stop_calls
        /\ client_pc' # client_pc)

\* a step of a NetworkMonitor.stop() that follows another with no thread
\* spawned in between
SecondMonitorStopStep ==
    \/ (/\ client_pc \in {"idle", "stop_monitor"}
        /\ monitor_stop_calls >= 1
        /\ monitor_stop_calls' = monitor_stop_calls + 1)
    \/ (/\ client_pc \in {"mstop_join", "stop_join"}
        /\ monitor_stop_calls >= 2
        /\ monitor_stop_calls' = monitor_stop_calls
        /\ client_pc' # client_pc)

\* C14: a second stop() in a row, on the relay or on the monitor, completes
\* like the first and changes no field of either object; over any number of
\* calls the listen socket is closed at most once, the relay stops its
\* monitor at most once and no loop thread is joined twice; and after a
\* complete stop() of a started relay the socket has been closed exactly once
\* and, on macOS, the monitor stopped and its thread joined exactly once.
C14_StopTwiceIdempotent ==
    /\ [][SecondRelayStopStep =>
            UNCHANGED <<running, socket, socket_closes, monitor_stops,
                        _running, _thread, threads>>]_vars
    /\ [][SecondRelayStopStep /\ client_pc # "stop_join" =>
            UNCHANGED network_monitor]_vars
    /\ [][SecondMonitorStopStep => UNCHANGED <<_running, _thread, threads>>]_vars
    /\ [](socket_closes <= 1 /\ monitor_stops <= 1)
    /\ [](\A t \in DOMAIN threads : threads[t].joins <= 1)
    /\ [](pc = "loop" /\ stop_calls >= 1 /\ client_pc = "idle" =>
            /\ socket_closes = 1
            /\ socket = "None"
            /\ network_monitor = "None"
            /\ (is_macos => threads[1].joins = 1))

\* the monitor was stopped directly, then the relay was stopped twice
C14_Witness ==
    /\ pc = "loop"
    /\ stop_calls = 2
    /\ monitor_stop_calls = 2
    /\ client_pc = "idle"
    /\ socket_closes = 1
    /\ monitor_stops = 1
    /\ Len(threads) = 1
    /\ threads[1].joins = 1
    /\ _thread = 0

(***************************************************************************)
(* the monitor loop: errors, ticks, start()                                *)
(***************************************************************************)
\* C16: an error raised during a tick never ends the loop thread: a thread
\* that is in a tick is at the while test afterwards, whether the tick raised
\* or not; a thread dies only of an error in its first pass, before any tick;
\* and while the monitor is not stopped a thread goes from the while test to
\* its sleep and from its sleep to the next tick.
C16_TickErrorsSwallowed ==
    /\ [][\A t \in DOMAIN threads :
            threads[t].pc = "check" => threads'[t].pc \in {"check", "test"}]_vars
    /\ [](\A t \in DOMAIN threads :
            threads[t].pc = "crashed" => threads[t].initial_pass = "raised")
    /\ [][\A t \in DOMAIN threads :
            /\ (threads[t].pc = "test" /\ _running
                    => threads'[t].pc \in {"test", "sleep"})
            /\ (threads[t].pc = "sleep" /\ _running
                    => threads'[t].pc \in {"sleep", "check"})]_vars

\* the thread is in its next tick after a tick that raised
C16_Witness ==
    /\ Len(threads) = 1
    /\ threads[1].pc = "check"
    /\ threads[1].initial_pass = "applied"
    /\ last_pass = RaisedPass
    /\ _running

\* thread t makes a tick that runs to its end
TickCompletes(t) ==
    /\ threads[t].pc = "check"
    /\ threads'[t].pc # "check"
    /\ ~last_pass'.raised

\* the tick re-applied the relay, and flushed the cache if that succeeded
Reapplied == last_pass'.applied /\ (last_pass'.success => last_pass'.flushed)

\* C17 as stated: on each tick (after the first, and unless it fails), if the
\* interface or the service read differs from the one read at the previous
\* tick, or the system's resolvers do not contain the relay, the tick
\* re-applies the relay (and flushes the cache when that succeeded).
C17_ReappliesOnAnyDifference ==
    [][\A t \in DOMAIN threads :
        TickCompletes(t) /\ seen_service # "unset" =>
            (   \/ active_interface # _last_interface
                \/ primary_service # seen_service
                \/ Loopback \notin Range(system_dns)
             => Reapplied)]_vars

\* C17: on each tick that runs to its end, if an active interface is read and
\* it differs from the one recorded at the previous tick, or a primary service
\* is read and it differs from the last service id recorded (at the last tick
\* that read one, or when the relay was last applied to a service), or the
\* system's resolvers do not contain the relay, the tick re-applies the relay
\* (and flushes the cache when that succeeded).  Reading no interface, or no
\* service, is not a change.
C17_ReappliesOnKnownChange ==
    [][\A t \in DOMAIN threads :
        TickCompletes(t) =>
            (   \/ (active_interface # None /\ active_interface # _last_interface)
                \/ (primary_service # None /\ primary_service # _last_service_id)
                \/ Loopback \notin Range(system_dns)
             => Reapplied)]_vars

\* a tick after the first found the interface changed to en1 and re-applied
\* the relay with success
C17_Witness ==
    /\ Len(threads) = 1
    /\ threads[1].pc = "test"
    /\ seen_service # "unset"
    /\ _last_interface = "en1"
    /\ last_pass.applied
    /\ last_pass.flushed
    /\ system_dns = <<Loopback>>

\* a call of NetworkMonitor.start(), by the relay or on the monitor
StartCalled == start_calls' = start_calls + 1

\* C18: start() on a running monitor spawns no thread, applies nothing, and
\* leaves the running flag and the thread handle as they are; start() on a
\* monitor that is not running spawns exactly one loop thread, and threads
\* are spawned by nothing else.
C18_StartWhileRunningNoOp ==
    /\ [][StartCalled /\ _running =>
            UNCHANGED <<_running, _thread, threads, last_pass, system_dns,
                        _last_interface, _last_service_id>>]_vars
    /\ [][StartCalled /\ ~_running =>
            /\ Len(threads') = Len(threads) + 1
            /\ _running'
            /\ _thread' = Len(threads')]_vars
    /\ [][Len(threads') # Len(threads) => StartCalled /\ ~_running]_vars

\* start() was called twice and there is one thread
C18_Witness ==
    /\ start_calls = 2
    /\ Len(threads) = 1
    /\ _running
    /\ _thread = 1
    /\ monitor_stop_calls = 0

\* C19: a loop thread begins with the reconfiguration pass: a thread that is
\* spawned is at the pass, and a thread that is at the while test, asleep, in
\* a tick or finished has made its first pass (applied, failed or raised)
\* before; nothing is waited for before that pass.
C19_FirstPassBeforeFirstWait ==
    /\ [](\A t \in DOMAIN threads :
            threads[t].pc # "initial" => threads[t].initial_pass # "none")
    /\ [][Len(threads') = Len(threads) + 1 =>
            threads'[Len(threads')].pc = "initial"]_vars

\* the thread made its first pass with success and is in its first sleep
C19_Witness ==
    /\ Len(threads) = 1
    /\ threads[1].pc = "sleep"
    /\ threads[1].initial_pass = "applied"
    /\ seen_service = "unset"

(***************************************************************************)
(* resolve_upstream: the sockets of the attempts                           *)
(***************************************************************************)
\* C28: every socket resolve_upstream opens for an attempt is closed when the
\* attempt ends, whether it succeeded, timed out or raised: at most one such
\* socket is open at a time, the next attempt's socket is opened only when
\* none is open, and none is open once resolve_upstream has returned (or at
\* any point outside an attempt).
C28_AttemptSocketsClosed ==
    /\ [](open_socks \in {0, 1})
    /\ [](open_socks = 1 <=> pc = "attempt")
    /\ [][open_socks' = open_socks + 1 => open_socks = 0]_vars
    /\ [][pc = "attempt" /\ pc' # "attempt" => open_socks' = 0]_vars

\* the first attempt raised on its socket, the second timed out, the third
\* succeeded; resolve_upstream has returned and no socket is open
C28_Witness ==
    /\ pc = "send"
    /\ Len(tried) = 3
    /\ last_outcome = "ok"
    /\ built = "upstream"
    /\ open_socks = 0

(***************************************************************************)
(* the relay's own address among the candidates                            *)
(***************************************************************************)
\* C29: the list of candidates of a forwarded query never contains the
\* relay's own address (the loopback address it installs as the system's
\* resolver), whether the original servers were captured from the DHCP lease
\* or from the resolver configuration; no query is sent to it.
C29_NoLoopbackCandidate ==
    /\ (delegated => Loopback \notin Range(upstream_servers))
    /\ Loopback \notin Range(tried)

(***************************************************************************)
(* the shared list of original servers against a query (SpecCapture)       *)
(***************************************************************************)
\* a list followed by the fallback, unless the list names it
PlusFallback(l) ==
    IF UPSTREAM_DNS \in Range(l) THEN l ELSE l \o <<UPSTREAM_DNS>>

\* the resolvers of the system other than the relay
NotLoopback(l) == Filter(l, Range(l) \ {Loopback})

\* C21: the shared list of original servers changes only by being replaced
\* with a complete list (the servers of the lease, or the system's resolvers
\* without the relay), never into a part of one; the list of candidates of a
\* query is a copy that later updates do not change; and whatever updates fall
\* within the call that builds it, it is one complete list (the one found
\* when the call began, or one assigned during the call) followed by the
\* fallback, never a mixture of two.
C21_WholeListReplace ==
    /\ [][original_upstream_dns' # original_upstream_dns =>
            /\ original_upstream_dns' # <<>>
            /\ original_upstream_dns' \in {dhcp_lease, NotLoopback(system_dns)}]_vars
    /\ [][upstream_servers # <<>> /\ upstream_servers' # <<>> =>
            upstream_servers' = upstream_servers]_vars
    /\ [](upstream_servers # <<>> =>
            \E l \in published : upstream_servers = PlusFallback(l))

\* the call tested the old list, a new one was assigned, and the candidates
\* are the new list and the fallback
C21_Witness ==
    /\ tested_dns = Tested(<<RouterDNS>>)
    /\ original_upstream_dns = <<RouterDNS, OtherDNS>>
    /\ published = {<<RouterDNS>>, <<RouterDNS, OtherDNS>>}
    /\ upstream_servers = <<RouterDNS, OtherDNS, UPSTREAM_DNS>>

(***************************************************************************)
(* start() against stop() (SpecStart)                                      *)
(***************************************************************************)
\* C26: in every state, whatever the interleaving of start() and stop(), the
\* running flag is true only while the relay holds a bound listen socket; the
\* accept loop never iterates with the flag true and no socket.
C26_RunningImpliesSocket == running => socket = "bound"

\* C22: the original servers are captured in the monitor's construction, once,
\* before any loop thread of that monitor exists and so before its first write
\* of the system's resolvers; every write of the system's resolvers comes
\* after the capture and changes nothing of what was captured; and no step of
\* a loop thread captures.
C22_CaptureBeforeInstall ==
    /\ [](captures <= 1)
    /\ [](threads # <<>> => captures = 1)
    /\ [][captures' # captures =>
            /\ pc = "start_construct"
            /\ threads = <<>>
            /\ system_dns' = system_dns
            /\ last_pass = NoPass]_vars
    /\ [][system_dns' # system_dns \/ last_pass' # last_pass =>
            /\ captures = 1
            /\ UNCHANGED <<original_upstream_dns, captured_dhcp, captures>>]_vars
    /\ [][threads # <<>> =>
            UNCHANGED <<original_upstream_dns, captured_dhcp, captures>>]_vars

\* the network's resolver was captured from the lease, and the first pass of
\* the loop thread then installed the relay
C22_Witness ==
    /\ captures = 1
    /\ original_upstream_dns = <<RouterDNS>>
    /\ captured_dhcp = <<RouterDNS>>
    /\ Len(threads) = 1
    /\ threads[1].initial_pass = "applied"
    /\ system_dns = <<Loopback>>

(***************************************************************************)
(* NetworkMonitor.stop() (SpecStop, SpecMonitor)                           *)
(***************************************************************************)
\* C23: NetworkMonitor.stop() always returns, also when the loop thread is
\* blocked inside a pass and never finishes; while it waits the running flag
\* is false, and when it returns the flag is false and the thread handle is
\* None.
C23_MonitorStopReturns ==
    /\ (client_pc = "mstop_join") ~> (client_pc = "idle")
    /\ [](client_pc = "mstop_join" => ~_running)
    /\ [][client_pc = "mstop_join" /\ client_pc' # client_pc
            => ~_running' /\ _thread' = 0]_vars

\* stop() has returned although the loop thread is still inside a tick
C23_Witness ==
    /\ client_pc = "idle"
    /\ monitor_stop_calls = 1
    /\ ~_running
    /\ _thread = 0
    /\ Len(threads) = 1
    /\ threads[1].pc = "check"
    /\ threads[1].joins = 1

\* C24: an error raised in the first pass of a loop thread does not end the
\* thread (ticks follow it); and in every state the monitor's running flag
\* is true only if a loop thread is alive.
C24_FirstPassErrorKeepsLoop ==
    /\ \A t \in DOMAIN threads : threads[t].pc # "crashed"
    /\ (_running => \E t \in DOMAIN threads : ~thread_finished(threads[t]))

\* the loop threads that are inside the while loop
LoopingThreads == {t \in DOMAIN threads : threads[t].pc \in {"sleep", "check"}}

\* C25: after any sequence of start() and stop() calls on one monitor, also
\* when a stop() gave up its join on a thread inside a pass and a start()
\* followed, at most one loop thread is alive and inside the loop.
C25_SingleLoopThread == Cardinality(LoopingThreads) <= 1

\* NetworkMonitor.stop() has returned and start() has not been called since
MonitorStopReturned ==
    /\ client_pc \in {"idle", "stop_socket"}
    /\ monitor_stop_calls >= 1
    /\ ~_running
    /\ _thread = 0

\* a pass of a loop thread comes to its end having called _configure_dns
PassApplies ==
    \E t \in DOMAIN threads :
        /\ threads[t].pc \in {"initial", "check"}
        /\ threads'[t].pc # threads[t].pc
        /\ last_pass'.applied

\* C27: once NetworkMonitor.stop() has returned, no loop thread of that
\* monitor writes the system's resolvers or flushes the cache.
C27_NoWriteAfterStop ==
    [][MonitorStopReturned => ~PassApplies /\ system_dns' = system_dns]_vars

====
